---------------------------- MODULE Spec2Model ----------------------------
(***************************************************************************)
(* Model of exp_lut_1over128_gen.cpp: the generator of the table           *)
(* exp_lut_1over128.hex, 1025 single-precision values exp(-k/128) written  *)
(* as 8-digit hexadecimal words, one per line.                             *)
(*                                                                         *)
(* TLC integers are 32 bits wide, so every quantity wider than that is     *)
(* kept in pieces: a real number in (0, 2^15) as a sequence of 15-bit      *)
(* limbs, a double's 53-bit significand as a 24-bit and a 29-bit part, a   *)
(* uint32_t as two 16-bit halves.  Texts (the file, the stream buffer) are *)
(* strings, that is, sequences of characters.                              *)
(***************************************************************************)
EXTENDS Integers, Sequences, FiniteSets, TLC

\* main: const int STEPS = 1024 (the last sample index).
STEPS == 1024

\* main: const double STEP = 1.0 / 128.0, kept as its denominator.
STEP_DEN == 128

\* ofs << std::setw(8): the field width of a word.
WIDTH == 8

(***************************************************************************)
(* Fixed-point reals: a sequence of NLimbs limbs, most significant first,  *)
(* the first limb the integer part, the others the fraction in base 2^15.  *)
(***************************************************************************)
LimbBits == 15
BASE == 2^LimbBits

\* The precision of the model's reals: 1 integer limb and NLimbs - 1 fraction
\* limbs, far finer than the 53 bits of the double the code computes in.
NLimbs == 7
NBits == NLimbs * LimbBits

FixOne == [i \in 1..NLimbs |-> IF i = 1 THEN 1 ELSE 0]
FixZero == [i \in 1..NLimbs |-> 0]

RECURSIVE FixMulSmallAt(_, _, _, _)
FixMulSmallAt(a, m, i, c) ==
    IF i = 0 THEN <<>>
    ELSE LET p == a[i] * m + c
         IN  Append(FixMulSmallAt(a, m, i - 1, p \div BASE), p % BASE)

\* a * m for a small natural m (m < 2^15); the carry out of the top is dropped.
FixMulSmall(a, m) == FixMulSmallAt(a, m, NLimbs, 0)

RECURSIVE FixDivSmallFrom(_, _, _, _)
FixDivSmallFrom(a, d, i, r) ==
    IF i > NLimbs THEN <<>>
    ELSE LET n == r * BASE + a[i]
         IN  <<n \div d>> \o FixDivSmallFrom(a, d, i + 1, n % d)

\* floor(a / d) for a small positive d (d <= 2^16).
FixDivSmall(a, d) == FixDivSmallFrom(a, d, 1, 0)

RECURSIVE FixAddAt(_, _, _, _)
FixAddAt(a, b, i, c) ==
    IF i = 0 THEN <<>>
    ELSE LET s == a[i] + b[i] + c
         IN  Append(FixAddAt(a, b, i - 1, s \div BASE), s % BASE)

FixAdd(a, b) == FixAddAt(a, b, NLimbs, 0)

RECURSIVE FixSubAt(_, _, _, _)
FixSubAt(a, b, i, c) ==
    IF i = 0 THEN <<>>
    ELSE LET s == a[i] - b[i] - c
         IN  IF s < 0 THEN Append(FixSubAt(a, b, i - 1, 1), s + BASE)
             ELSE Append(FixSubAt(a, b, i - 1, 0), s)

\* a - b for a >= b.
FixSub(a, b) == FixSubAt(a, b, NLimbs, 0)

RECURSIVE SumTo(_, _, _)
SumTo(f, lo, hi) == IF lo > hi THEN 0 ELSE f[lo] + SumTo(f, lo + 1, hi)

\* Column p of the product a * b: the low halves of the limb products of
\* weight BASE^(1-p) and the high halves of those of weight BASE^(-p).
FixMulColumn(a, b, p) ==
    LET lows  == [i \in 1..NLimbs |->
                    IF p + 1 - i \in 1..NLimbs
                    THEN (a[i] * b[p + 1 - i]) % BASE ELSE 0]
        highs == [i \in 1..NLimbs |->
                    IF p + 2 - i \in 1..NLimbs
                    THEN (a[i] * b[p + 2 - i]) \div BASE ELSE 0]
    IN  SumTo(lows, 1, NLimbs) + SumTo(highs, 1, NLimbs)

RECURSIVE FixCarryAt(_, _, _)
FixCarryAt(cols, i, c) ==
    IF i = 0 THEN <<>>
    ELSE LET s == cols[i] + c
         IN  Append(FixCarryAt(cols, i - 1, s \div BASE), s % BASE)

\* a * b truncated to NLimbs limbs (one guard column feeds the carry).
FixMul(a, b) ==
    LET cols == [p \in 1..NLimbs + 1 |-> FixMulColumn(a, b, p)]
    IN  SubSeq(FixCarryAt(cols, NLimbs + 1, 0), 1, NLimbs)


(***************************************************************************)
(* std::exp(x) for a sample input x = -k * STEP, a rational num/den with   *)
(* num <= 0.  With t = -x / 2^n <= 1/2, exp(x) = exp(-t)^(2^n): the Taylor *)
(* series of exp(-t), squared n times.                                     *)
(***************************************************************************)
\* main line 27 with the step left out: x = -k.
SampleXUnscaled(kk) == [num |-> -kk, den |-> 1]

\* main line 27: double x = -k * STEP (exact in a double: STEP is 2^-7).
SampleX(kk) == [num |-> -kk, den |-> STEP_DEN]

\* The least n with -x / 2^n <= 1/2.
Halvings(x) == CHOOSE n \in 0..LimbBits :
                  /\ 2 * (-x.num) <= x.den * 2^n
                  /\ \A m \in 0..(n - 1) : 2 * (-x.num) > x.den * 2^m

\* The series from term i on; s holds the term t^i/i! and the sums of the even
\* and of the odd terms before it, and the series ends when the term is 0.
RECURSIVE TaylorFrom(_, _, _, _)
TaylorFrom(num, den, i, s) ==
    IF s.term = FixZero THEN FixSub(s.pos, s.neg)
    ELSE TaylorFrom(num, den, i + 1,
           [term |-> FixDivSmall(FixDivSmall(FixMulSmall(s.term, num), den), i + 1),
            pos  |-> IF i % 2 = 0 THEN FixAdd(s.pos, s.term) ELSE s.pos,
            neg  |-> IF i % 2 = 1 THEN FixAdd(s.neg, s.term) ELSE s.neg])

RECURSIVE SquareTimes(_, _)
SquareTimes(a, n) == IF n = 0 THEN a ELSE SquareTimes(FixMul(a, a), n - 1)

\* exp(x) as a fixed-point real, for x <= 0.
ExpFix(x) ==
    LET n == Halvings(x)
    IN  SquareTimes(TaylorFrom(-x.num, x.den * 2^n, 0,
                               [term |-> FixOne, pos |-> FixZero, neg |-> FixZero]),
                    n)

\* Bit j of a fixed-point real, j = 1 the most significant bit of limb 1.
FixBit(a, j) ==
    IF j > NBits THEN 0
    ELSE (a[(j - 1) \div LimbBits + 1] \div 2^(LimbBits - 1 - ((j - 1) % LimbBits))) % 2

RECURSIVE FixBitsVal(_, _, _)
\* The number the n bits of a from bit j on spell.
FixBitsVal(a, j, n) ==
    IF n = 0 THEN 0 ELSE 2 * FixBitsVal(a, j, n - 1) + FixBit(a, j + n - 1)

\* The place of the leading 1 bit of a nonzero fixed-point real.
FixLead(a) == CHOOSE j \in 1..NBits :
                 FixBit(a, j) = 1 /\ \A i \in 1..(j - 1) : FixBit(a, i) = 0

\* A double: value (-1)^sign * (hi * 2^29 + lo) * 2^(exp - 52), with
\* 2^23 <= hi < 2^24 and lo < 2^29 (a normal number).
HiBits == 24
LoBits == 29

\* The double nearest to a fixed-point real (round to nearest, ties to even;
\* hi = 0 is the number zero): what a correctly rounded std::exp returns.
FixToDouble(a) ==
    LET p      == FixLead(a)
        hi     == FixBitsVal(a, p, HiBits)
        lo     == FixBitsVal(a, p + HiBits, LoBits)
        round  == FixBit(a, p + HiBits + LoBits)
        sticky == \E j \in (p + HiBits + LoBits + 1)..NBits : FixBit(a, j) = 1
        up     == round = 1 /\ (sticky \/ lo % 2 = 1)
        lo1    == IF up THEN lo + 1 ELSE lo
        hi1    == IF lo1 = 2^LoBits THEN hi + 1 ELSE hi
    IN  IF a = FixZero THEN [sign |-> 0, exp |-> 0, hi |-> 0, lo |-> 0] ELSE
        [sign |-> 0,
         exp  |-> IF hi1 = 2^HiBits THEN LimbBits - p + 1 ELSE LimbBits - p,
         hi   |-> IF hi1 = 2^HiBits THEN 2^(HiBits - 1) ELSE hi1,
         lo   |-> lo1 % 2^LoBits]

\* main line 28: std::exp(x), a double.
std_exp(x) == FixToDouble(ExpFix(x))

(***************************************************************************)
(* float: the fields of an IEEE-754 binary32, value                        *)
(* (-1)^sign * (2^23 + man) * 2^(exp - 127 - 23) when 0 < exp < 255.       *)
(***************************************************************************)
FLT_MANT == 23
FLT_BIAS == 127
FLT_EMAX == 255

\* main line 28: static_cast<float>(double), round to nearest, ties to even.
static_cast_float(d) ==
    IF d.hi = 0 THEN [sign |-> d.sign, exp |-> 0, man |-> 0]
    ELSE IF d.exp + FLT_BIAS >= 1
    THEN LET half == 2^(LoBits - 1)
             up   == d.lo > half \/ (d.lo = half /\ d.hi % 2 = 1)
             m    == IF up THEN d.hi + 1 ELSE d.hi
             e    == (IF m = 2^HiBits THEN d.exp + 1 ELSE d.exp) + FLT_BIAS
         IN  IF e >= FLT_EMAX
             THEN [sign |-> d.sign, exp |-> FLT_EMAX, man |-> 0]
             ELSE [sign |-> d.sign, exp |-> e, man |-> m % 2^FLT_MANT]
    ELSE LET sh == 1 - (d.exp + FLT_BIAS)
         IN  IF sh > HiBits + 1 THEN [sign |-> d.sign, exp |-> 0, man |-> 0]
             ELSE LET q    == d.hi \div 2^sh
                      r    == d.hi % 2^sh
                      half == 2^(sh - 1)
                      up   == r > half \/ (r = half /\ (d.lo > 0 \/ q % 2 = 1))
                      bits == IF up THEN q + 1 ELSE q
                 IN  [sign |-> d.sign, exp |-> bits \div 2^FLT_MANT,
                      man |-> bits % 2^FLT_MANT]

(***************************************************************************)
(* uint32_t: two 16-bit halves, value hi * 2^16 + lo.                      *)
(***************************************************************************)
HalfBits == 16

\* A numeric conversion static_cast<uint32_t>(v) of a float in [0, 2): the
\* integer part of the value, not its bit pattern.
float_to_u32_numeric(v) ==
    [hi |-> 0, lo |-> IF v.exp >= FLT_BIAS THEN 1 ELSE 0]

\* float_to_u32: memcpy of the float's 32 bits into a uint32_t.
float_to_u32(v) ==
    [hi |-> v.sign * 2^(HalfBits - 1) + v.exp * 2^(FLT_MANT - HalfBits)
            + v.man \div 2^HalfBits,
     lo |-> v.man % 2^HalfBits]


(***************************************************************************)
(* Formatted output: operator<< of std::ostream.                           *)
(***************************************************************************)
\* The digits under std::uppercase.
DIGITS_UPPER == <<"0", "1", "2", "3", "4", "5", "6", "7",
                  "8", "9", "A", "B", "C", "D", "E", "F">>

\* The digits num_put writes (no std::uppercase: lowercase).
DIGITS == <<"0", "1", "2", "3", "4", "5", "6", "7",
            "8", "9", "a", "b", "c", "d", "e", "f">>

U32Zero == [hi |-> 0, lo |-> 0]

\* u divided by a small base b: quotient and remainder.
U32DivMod(u, b) ==
    LET n == (u.hi % b) * 2^HalfBits + u.lo
    IN  [quot |-> [hi |-> u.hi \div b, lo |-> n \div b], rem |-> n % b]

RECURSIVE U32DigitsOf(_, _)
U32DigitsOf(u, b) ==
    IF u = U32Zero THEN ""
    ELSE LET qr == U32DivMod(u, b)
         IN  U32DigitsOf(qr.quot, b) \o DIGITS[qr.rem + 1]

\* The text of an unsigned value in base b, most significant digit first,
\* with no prefix (no std::showbase) and no leading zeros.
U32Text(u, b) == IF u = U32Zero THEN "0" ELSE U32DigitsOf(u, b)

RECURSIVE Repeat(_, _)
\* The character c, n times.
Repeat(c, n) ==
    IF n <= 0 THEN ""
    ELSE IF n % 2 = 1 THEN c \o Repeat(c, n - 1)
    ELSE LET h == Repeat(c, n \div 2) IN h \o h

\* Padding to the field width: the fill character on the left (the default
\* adjustment is right).
Pad(s, w, fill) ==
    IF Len(s) >= w THEN s ELSE Repeat(fill, w - Len(s)) \o s

(***************************************************************************)
(* The samples: what lines 27-28 compute in iteration kk.                  *)
(***************************************************************************)
\* main lines 27-28: float y = static_cast<float>(std::exp(-kk * STEP)).
SampleY(kk) == static_cast_float(std_exp(SampleX(kk)))

\* y for every sample index, computed once.
Y == [kk \in 0..STEPS |-> SampleY(kk)]

(***************************************************************************)
(* The state of a run of main.                                             *)
(***************************************************************************)
VARIABLES
    pc,       \* the statement main is at
    k,        \* the loop index
    ofs,      \* std::ofstream ofs: open, bad (failbit or badbit), base, fill,
              \* width, and buf, the characters not yet written to the file
    file,     \* exp_lut_1over128.hex in the working directory: exists, data
    cout,     \* the lines written to standard output
    cerr,     \* the lines written to the error stream
    ret,      \* <<>> while main runs, then <<its return value>>
    prev,     \* the file as the run found it and the previous run's return value
    runs,     \* the number of runs started
    bufCap,   \* the capacity of the stream buffer, in characters
    diskCap   \* the number of characters the file can hold before the disk is full

vars == <<pc, k, ofs, file, cout, cerr, ret, prev, runs, bufCap, diskCap>>

\* main line 18: the name of the output file.
FILE_NAME == "exp_lut_1over128.hex"

\* main line 20: the diagnostic.
OPEN_FAILED_MSG == <<"Failed", "to", "open", "output", "file.", "\n">>

\* main line 34: the confirmation, word by word.
SUCCESS_MSG == <<"Generated", "exp_lut_1over128.hex", "with", "1025", "entries.", "\n">>

\* The size of a complete table: STEPS + 1 lines of WIDTH digits and a newline.
TableLen == (STEPS + 1) * (WIDTH + 1)

\* Bounds of the environment.
MaxRuns == 2
MaxPrior == 3
MaxBufLines == 3
MaxFaults == 3

\* std::ofstream as constructed, before the open.
NewStream == [open |-> FALSE, bad |-> FALSE, base |-> 10, fill |-> " ",
              width |-> 0, buf |-> ""]

\* What the working directory may hold before the first run: no file, an
\* empty one, a short one, one longer than the table.
PriorFiles ==
    {[exists |-> FALSE, data |-> ""]}
    \cup {[exists |-> TRUE, data |-> Repeat("z", n)] : n \in {0, MaxPrior, TableLen + MaxPrior}}

\* Unbuffered, or a buffer of MaxBufLines lines and a few characters more.
BufCaps == {0, MaxBufLines * (WIDTH + 1) + MaxBufLines}

\* Capacities that fill up during the run: at the first character, inside
\* the table, and at its very last character.
FaultCaps == {((TableLen - 1) * i) \div MaxFaults : i \in 0..MaxFaults}

InitWith(files, caps) ==
    /\ pc = "open"
    /\ k = 0
    /\ ofs = NewStream
    /\ file \in files
    /\ cout = <<>>
    /\ cerr = <<>>
    /\ ret = <<>>
    /\ prev = [file |-> file, ret |-> <<>>]
    /\ runs = 1
    /\ bufCap \in BufCaps
    /\ diskCap \in caps

\* The disk has room for the whole table.
Init == InitWith(PriorFiles, {TableLen})

\* The disk fills up while the table is written.
InitFault == InitWith({f \in PriorFiles : Len(f.data) <= MaxPrior}, FaultCaps)

(***************************************************************************)
(* The stream and the file under it.  w is the pair [ofs, file].           *)
(***************************************************************************)
\* The file buffer writes d to the file; a disk that fills up takes the
\* characters it has room for and the stream goes bad.
filebuf_write(w, d) ==
    LET room == diskCap - Len(w.file.data)
    IN  IF Len(d) <= room
        THEN [w EXCEPT !.file.data = @ \o d]
        ELSE [w EXCEPT !.file.data = @ \o SubSeq(d, 1, room), !.ofs.bad = TRUE]

\* Characters put into the stream: kept in the buffer while they fit, else
\* written out together with the buffer.
filebuf_xsputn(w, s) ==
    IF Len(w.ofs.buf) + Len(s) <= bufCap
    THEN [w EXCEPT !.ofs.buf = @ \o s]
    ELSE filebuf_write([w EXCEPT !.ofs.buf = ""], w.ofs.buf \o s)

\* operator<<: nothing on a bad stream; else the text padded to the width,
\* and the width back to 0.
ostream_insert(w, s) ==
    IF w.ofs.bad THEN w
    ELSE [filebuf_xsputn(w, Pad(s, w.ofs.width, w.ofs.fill)) EXCEPT !.ofs.width = 0]

\* main line 24, with std::hex left out: the base stays decimal.
std_hex_missing(os) == os

\* main line 24: ofs << std::hex.
std_hex(os) == [os EXCEPT !.base = 16]

\* main line 24: ofs << std::setfill('0').
std_setfill(os, c) == [os EXCEPT !.fill = c]

\* main line 30: ofs << std::setw(8).
std_setw(os, n) == [os EXCEPT !.width = n]

\* main line 30: ofs << u, an unsigned value in the stream's base.
ostream_insert_u32(w, u) == ostream_insert(w, U32Text(u, w.ofs.base))

\* A close that never releases the handle.
filebuf_close_leak(os) == os

\* The file buffer releases its handle.
filebuf_close(os) == [os EXCEPT !.open = FALSE]

\* main line 33, ofs.close(): the buffer is written out and the handle released
\* (also when the write fails); closing a stream that is not open fails.
ofstream_close(w) ==
    IF ~w.ofs.open THEN [w EXCEPT !.ofs.bad = TRUE]
    ELSE LET f == filebuf_write([w EXCEPT !.ofs.buf = ""], w.ofs.buf)
         IN  [f EXCEPT !.ofs = filebuf_close(@)]

\* ~ofstream at the end of main's scope: closes the stream if it is open.
ofstream_dtor(w) == IF w.ofs.open THEN ofstream_close(w) ELSE w

\* An open that keeps what the file holds (std::ios::app).
open_append(f) == [exists |-> TRUE, data |-> f.data]

\* main line 18: std::ofstream ofs(name) opens with ios::out, which creates
\* the file or truncates it.
open_truncate(f) == [exists |-> TRUE, data |-> ""]

\* A check that never sees the failure.
ofs_not_never(os) == FALSE

\* main line 19: !ofs.
ofs_not(os) == os.bad

\* A loop that stops one index early.
LoopCondStrict(kk) == kk < STEPS

\* A loop that also stops when the stream has gone bad.
LoopCondChecked(kk) == kk <= STEPS /\ ~ofs.bad

\* main line 26: k <= STEPS.
LoopCond(kk) == kk <= STEPS

\* The statements after the loop with the confirmation before the close.
SuccessorSwapped(p) ==
    CASE p = "loop" -> "report" [] p = "report" -> "close" [] p = "close" -> "ret"

\* main lines 26-35: the statement that follows the loop, the close and the
\* confirmation.
Successor(p) ==
    CASE p = "loop" -> "close" [] p = "close" -> "report" [] p = "report" -> "ret"

(***************************************************************************)
(* main, statement by statement.                                           *)
(***************************************************************************)
\* Line 18: the open succeeds, creating or truncating the file, or fails
\* (the directory is not writable) and sets failbit.
Open ==
    /\ pc = "open"
    /\ \E ok \in BOOLEAN :
         IF ok
         THEN /\ file' = open_truncate(file)
              /\ ofs' = [ofs EXCEPT !.open = TRUE]
         ELSE /\ file' = file
              /\ ofs' = [ofs EXCEPT !.bad = TRUE]
    /\ pc' = "check"
    /\ UNCHANGED <<k, cout, cerr, ret, prev, runs, bufCap, diskCap>>

\* Lines 19-22: if (!ofs) { cerr << ...; return 1; }, and ofs's destructor.
CheckFailed ==
    /\ pc = "check"
    /\ ofs_not(ofs)
    /\ cerr' = Append(cerr, OPEN_FAILED_MSG)
    /\ ret' = <<1>>
    /\ LET w == ofstream_dtor([ofs |-> ofs, file |-> file])
       IN  ofs' = w.ofs /\ file' = w.file
    /\ pc' = "done"
    /\ UNCHANGED <<k, cout, prev, runs, bufCap, diskCap>>

\* Line 19 when the stream is good, line 24, and the loop's int k = 0.
SetFormat ==
    /\ pc = "check"
    /\ ~ofs_not(ofs)
    /\ ofs' = std_setfill(std_hex(ofs), "0")
    /\ k' = 0
    /\ pc' = "loop"
    /\ UNCHANGED <<file, cout, cerr, ret, prev, runs, bufCap, diskCap>>

\* Lines 26-31: one iteration.
LoopBody ==
    /\ pc = "loop"
    /\ LoopCond(k)
    /\ LET u  == float_to_u32(Y[k])
           w0 == [ofs |-> std_setw(ofs, WIDTH), file |-> file]
           w1 == ostream_insert_u32(w0, u)
           w2 == ostream_insert(w1, "\n")
       IN  ofs' = w2.ofs /\ file' = w2.file
    /\ k' = k + 1
    /\ UNCHANGED <<pc, cout, cerr, ret, prev, runs, bufCap, diskCap>>

\* Line 26: the loop ends.
LoopExit ==
    /\ pc = "loop"
    /\ ~LoopCond(k)
    /\ pc' = Successor("loop")
    /\ UNCHANGED <<k, ofs, file, cout, cerr, ret, prev, runs, bufCap, diskCap>>

\* Line 33: ofs.close().
Close ==
    /\ pc = "close"
    /\ LET w == ofstream_close([ofs |-> ofs, file |-> file])
       IN  ofs' = w.ofs /\ file' = w.file
    /\ pc' = Successor("close")
    /\ UNCHANGED <<k, cout, cerr, ret, prev, runs, bufCap, diskCap>>

\* Line 34: the confirmation on standard output.
Report ==
    /\ pc = "report"
    /\ cout' = Append(cout, SUCCESS_MSG)
    /\ pc' = Successor("report")
    /\ UNCHANGED <<k, ofs, file, cerr, ret, prev, runs, bufCap, diskCap>>

\* Line 35: return 0, and ofs's destructor.
Return ==
    /\ pc = "ret"
    /\ ret' = <<0>>
    /\ LET w == ofstream_dtor([ofs |-> ofs, file |-> file])
       IN  ofs' = w.ofs /\ file' = w.file
    /\ pc' = "done"
    /\ UNCHANGED <<k, cout, cerr, prev, runs, bufCap, diskCap>>

\* The generator is run again, in the same directory.
Rerun ==
    /\ pc = "done"
    /\ runs < MaxRuns
    /\ runs' = runs + 1
    /\ prev' = [file |-> file, ret |-> ret]
    /\ pc' = "open"
    /\ k' = 0
    /\ ofs' = NewStream
    /\ cout' = <<>>
    /\ cerr' = <<>>
    /\ ret' = <<>>
    /\ UNCHANGED <<file, bufCap, diskCap>>

Next ==
    \/ Open
    \/ CheckFailed
    \/ SetFormat
    \/ LoopBody
    \/ LoopExit
    \/ Close
    \/ Report
    \/ Return
    \/ Rerun

Spec == Init /\ [][Next]_vars

SpecFault == InitFault /\ [][Next]_vars

(***************************************************************************)
(* Reading the output back, as a consumer of the table does.               *)
(***************************************************************************)
\* Everything the run has put into the stream: on file or still buffered.
Output == file.data \o ofs.buf

LowerHex == {"0", "1", "2", "3", "4", "5", "6", "7",
             "8", "9", "a", "b", "c", "d", "e", "f"}

HexValue(c) ==
    CASE c = "0" -> 0  [] c = "1" -> 1  [] c = "2" -> 2  [] c = "3" -> 3
      [] c = "4" -> 4  [] c = "5" -> 5  [] c = "6" -> 6  [] c = "7" -> 7
      [] c = "8" -> 8  [] c = "9" -> 9  [] c = "a" -> 10 [] c = "b" -> 11
      [] c = "c" -> 12 [] c = "d" -> 13 [] c = "e" -> 14 [] c = "f" -> 15

\* The 8 characters of line j (0-indexed) of a text of 9-character records.
LineAt(out, j) == SubSeq(out, 9 * j + 1, 9 * j + 8)

\* Character i of a text.
CharAt(t, i) == SubSeq(t, i, i)

IsHex8(t) == Len(t) = 8 /\ \A i \in 1..8 : CharAt(t, i) \in LowerHex

HexNum4(t) ==
    ((HexValue(CharAt(t, 1)) * 16 + HexValue(CharAt(t, 2))) * 16
     + HexValue(CharAt(t, 3))) * 16 + HexValue(CharAt(t, 4))

\* A line parsed as an unsigned 32-bit integer.
ParseHex(t) == [hi |-> HexNum4(SubSeq(t, 1, 4)), lo |-> HexNum4(SubSeq(t, 5, 8))]

\* A word read as the bit pattern of a float: 1 sign bit, 8 exponent bits,
\* 23 mantissa bits.
u32_as_float(u) ==
    [sign |-> u.hi \div 2^15,
     exp  |-> (u.hi \div 2^7) % 2^8,
     man  |-> (u.hi % 2^7) * 2^16 + u.lo]

\* The run opened the file and is in or past the loop.
Opened == pc \in {"loop", "close", "report", "ret"} \/ (pc = "done" /\ ret = <<0>>)

\* The lines looked at in a state: inside the loop the line just written,
\* after the loop every line.  Each line is thus read when it is appended
\* and all of them again once the loop has ended.
Checked ==
    IF pc = "loop" THEN (IF k > 0 THEN {k - 1} ELSE {}) ELSE 0..(k - 1)

C2_BitExact ==
    Opened =>
      \A j \in Checked :
        /\ IsHex8(LineAt(Output, j))
        /\ u32_as_float(ParseHex(LineAt(Output, j))) = Y[j]

C2_Witness == pc = "report" /\ k = STEPS + 1 /\ Len(file.data) = TableLen

(***************************************************************************)
(* C3: every line is exactly 8 characters of 0-9a-f followed by one        *)
(* newline; between iterations the stream is still in base 16 with fill    *)
(* '0', and the width is back to 0 until the next setw(8).                 *)
(***************************************************************************)
C3_EightHexDigits ==
    Opened =>
      /\ pc = "loop" => ofs.base = 16 /\ ofs.fill = "0" /\ ofs.width = 0
      /\ Len(Output) = 9 * k
      /\ \A j \in Checked :
           /\ \A i \in 1..8 : CharAt(Output, 9 * j + i) \in LowerHex
           /\ CharAt(Output, 9 * j + 9) = "\n"

C3_Witness == pc = "loop" /\ k = 2 /\ Len(Output) = 18

(***************************************************************************)
(* C4: when the open fails the run writes the diagnostic to the error      *)
(* stream and returns 1 at once: no iteration, the file as the run found   *)
(* it, nothing on standard output.                                         *)
(***************************************************************************)
C4_OpenFailure ==
    (pc # "open" /\ ofs.bad) =>
      /\ pc \in {"check", "done"}
      /\ k = 0
      /\ file = prev.file
      /\ cout = <<>>
      /\ ~ofs.open
      /\ pc = "done" => ret = <<1>> /\ cerr = <<OPEN_FAILED_MSG>>

C4_Witness == pc = "done" /\ ret = <<1>> /\ cerr # <<>>

(***************************************************************************)
(* C5: a successful run opens, writes all 1025 lines, closes, confirms,    *)
(* returns 0.  The confirmation is never out while the file is open or     *)
(* incomplete; there is exactly one line on standard output and it names   *)
(* the file and the count 1025.                                            *)
(***************************************************************************)
C5_OrderOfEvents ==
    /\ pc \in {"close", "report", "ret"} => k = STEPS + 1
    /\ ofs.open => cout = <<>>
    /\ cout # <<>> =>
         /\ pc \in {"ret", "done"}
         /\ ofs.buf = ""
         /\ Len(file.data) = 9 * 1025
    /\ (pc = "done" /\ ret = <<0>>) =>
         /\ Len(cout) = 1
         /\ \E i \in DOMAIN cout[1] : cout[1][i] = FILE_NAME
         /\ \E i \in DOMAIN cout[1] : cout[1][i] = ToString(STEPS + 1)
         /\ cerr = <<>>
    /\ (pc = "done" /\ ret # <<0>>) => cout = <<>>

C5_Witness == pc = "done" /\ ret = <<0>> /\ cout = <<SUCCESS_MSG>> /\ ~ofs.open

(***************************************************************************)
(* C6: a successful run leaves nothing of what the file held before, not   *)
(* even when that was longer than the table, and a successful run after a  *)
(* successful run leaves the same bytes.                                   *)
(***************************************************************************)
C6_Overwrite ==
    (pc = "done" /\ ret = <<0>>) =>
      /\ Len(file.data) = 9 * 1025
      /\ \A i \in 1..Len(file.data) : CharAt(file.data, i) # "z"
      /\ prev.ret = <<0>> => file.data = prev.file.data

C6_Witness == pc = "done" /\ ret = <<0>> /\ prev.ret = <<0>> /\ runs = 2

(***************************************************************************)
(* C7: the first line is the text 3f800000, the bit pattern of 1.0f.       *)
(***************************************************************************)
C7_FirstLine ==
    (Opened /\ k >= 1) =>
      SubSeq(Output, 1, 8) = "3f800000"

C7_Witness == pc = "loop" /\ k = 1 /\ Len(Output) = 9

(***************************************************************************)
(* C8: the open is the only failure main looks at.  Once the file is open  *)
(* a failed write or close changes nothing: all 1025 iterations run, the   *)
(* confirmation is written and main returns 0, also when the file holds    *)
(* less than the table.                                                    *)
(***************************************************************************)
C8_FailuresIgnored ==
    /\ pc \in {"close", "report", "ret"} => k = STEPS + 1
    /\ (pc = "done" /\ ret = <<1>>) => k = 0
    /\ (pc = "done" /\ ret # <<1>>) =>
         /\ ret = <<0>>
         /\ k = STEPS + 1
         /\ cout = <<SUCCESS_MSG>>
         /\ cerr = <<>>

C8_Witness ==
    pc = "done" /\ ret = <<0>> /\ ofs.bad /\ Len(file.data) < TableLen
    /\ cout = <<SUCCESS_MSG>>

(***************************************************************************)
(* C9: when main has returned, on either path, the handle is not open and  *)
(* nothing is left in the buffer; and from the close on nothing is         *)
(* written to the file for the rest of the run.                            *)
(***************************************************************************)
C9_HandleReleased ==
    /\ [](pc = "done" => ~ofs.open /\ ofs.buf = "")
    /\ []((pc \in {"report", "ret"}) => ~ofs.open)
    /\ [][(~ofs.open /\ pc # "open") => file' = file]_vars

C9_Witness == pc = "done" /\ ret = <<0>> /\ ~ofs.open /\ file.exists

(***************************************************************************)
(* C10: every word of the table is a positive normal float: sign bit 0,    *)
(* exponent field neither 0 nor 255.                                       *)
(***************************************************************************)
C10_NormalValues ==
    Opened =>
      \A j \in Checked :
        /\ IsHex8(LineAt(Output, j))
        /\ LET y == u32_as_float(ParseHex(LineAt(Output, j)))
           IN  y.sign = 0 /\ y.exp \in 1..254

C10_Witness == pc = "close" /\ k = STEPS + 1 /\ Len(Output) = TableLen

=============================================================================
